---- MODULE Spec2Model ----
(***************************************************************************)
(* Append-only key-value store (kvstore.py, main.py, load_data.py).         *)
(*                                                                         *)
(* A text is a sequence of characters; a character is a one-letter string.  *)
(* The file data.db is the sequence of characters its bytes decode to, with *)
(* BAD standing for a byte sequence that is not valid UTF-8.                *)
(***************************************************************************)
EXTENDS Integers, Sequences, FiniteSets, TLC

\* ---- characters ----------------------------------------------------------

NL == "\n"
CR == "\r"
SP == " "
\* a byte of the file that no UTF-8 decoder accepts (0xFF)
BAD == "<ff>"
\* a lone surrogate in a Python str (U+D800): it has no UTF-8 encoding
SUR == "<d800>"
\* U+FFFD, what errors="replace" decodes an invalid byte to
REPL == "<fffd>"
\* what errors="replace" encodes an unencodable character to
QM == "?"

\* str.isspace() on the characters of the model
IsSpace(c) == c \in {SP, NL, CR, "\t"}

\* str.upper() on one character
UpperChar(c) ==
  CASE c = "s" -> "S"
    [] c = "e" -> "E"
    [] c = "t" -> "T"
    [] c = "g" -> "G"
    [] c = "x" -> "X"
    [] c = "i" -> "I"
    [] c = "a" -> "A"
    [] c = "b" -> "B"
    [] OTHER -> c

\* str.upper()
Upper(s) == [i \in 1..Len(s) |-> UpperChar(s[i])]

\* ---- Python string operations ---------------------------------------------

\* s[n:] for 0-based n
Drop(s, n) == SubSeq(s, n + 1, Len(s))

\* s[:n]
Take(s, n) == SubSeq(s, 1, n)

\* number of leading whitespace characters of s
RECURSIVE LeadWS(_)
LeadWS(s) ==
  IF s = <<>> \/ ~IsSpace(Head(s)) THEN 0 ELSE 1 + LeadWS(Tail(s))

\* number of leading non-whitespace characters of s
RECURSIVE LeadTok(_)
LeadTok(s) ==
  IF s = <<>> \/ IsSpace(Head(s)) THEN 0 ELSE 1 + LeadTok(Tail(s))

\* number of trailing characters of s that satisfy the test "is in cs"
RECURSIVE TrailIn(_, _)
TrailIn(s, cs) ==
  IF s = <<>> \/ s[Len(s)] \notin cs THEN 0
  ELSE 1 + TrailIn(Take(s, Len(s) - 1), cs)

\* s.lstrip()
LStrip(s) == Drop(s, LeadWS(s))

\* s.rstrip("\n")
RStripNL(s) == Take(s, Len(s) - TrailIn(s, {NL}))

\* s.strip()
Strip(s) ==
  LET l == LStrip(s)
  IN  Take(l, Len(l) - TrailIn(l, {SP, NL, CR, "\t"}))

\* s.split(maxsplit=n): runs of whitespace separate the parts, at most n
\* splits are made, and the last part keeps its trailing whitespace
RECURSIVE Split(_, _)
Split(s, n) ==
  LET t == LStrip(s)
  IN  IF t = <<>> THEN <<>>
      ELSE IF n = 0 THEN <<t>>
      ELSE <<Take(t, LeadTok(t))>> \o Split(Drop(t, LeadTok(t)), n - 1)

\* the literal "SET"
SETWord == <<"S", "E", "T">>
GETWord == <<"G", "E", "T">>
EXITWord == <<"E", "X", "I", "T">>

\* ---- text files -------------------------------------------------------------

\* str.encode("utf-8", errors="strict") followed by decode: raises on a
\* lone surrogate, and is the identity otherwise
Encodable(s) == \A i \in 1..Len(s) : s[i] # SUR

\* str.encode("utf-8", errors="replace").decode("utf-8")
EncodeReplace(s) == [i \in 1..Len(s) |-> IF s[i] = SUR THEN QM ELSE s[i]]

\* bytes.decode("utf-8", errors="replace")
DecodeReplace(b) == [i \in 1..Len(b) |-> IF b[i] = BAD THEN REPL ELSE b[i]]

\* universal-newline translation of a text file opened for reading:
\* "\r\n" and "\r" are read as "\n"
RECURSIVE Universal(_)
Universal(s) ==
  IF s = <<>> THEN <<>>
  ELSE IF Head(s) = CR
       THEN IF Len(s) >= 2 /\ s[2] = NL
            THEN <<NL>> \o Universal(Drop(s, 2))
            ELSE <<NL>> \o Universal(Tail(s))
       ELSE <<Head(s)>> \o Universal(Tail(s))

\* number of characters of s up to and including its first "\n" (all of s
\* when it has none)
RECURSIVE LineLen(_)
LineLen(s) ==
  IF s = <<>> THEN 0
  ELSE IF Head(s) = NL THEN 1
  ELSE 1 + LineLen(Tail(s))

\* "for raw in f": the lines of the file, each with its "\n" when it has one
RECURSIVE Lines(_)
Lines(s) ==
  IF s = <<>> THEN <<>>
  ELSE <<Take(s, LineLen(s))>> \o Lines(Drop(s, LineLen(s)))

\* ---- the in-memory index -------------------------------------------------

\* what get returns for a key the index does not hold (Python's None)
None == <<"<None>">>

\* the positions of the index whose key is key
Matches(index, key) == {i \in 1..Len(index) : index[i][1] = key}

\* the smallest element of a non-empty set of numbers
Min(S) == CHOOSE m \in S : \A n \in S : m <= n

\* a slip in the upsert: it appends without looking for the key
apply_append_only(index, key, value) == Append(index, <<key, value>>)

\* a slip in the upsert: it returns at the match without replacing it
apply_keep_first(index, key, value) ==
  IF \E i \in 1..Len(index) : index[i][1] = key
  THEN index
  ELSE Append(index, <<key, value>>)

\* a slip in the upsert: it replaces the first entry, whatever its key
apply_overwrite_first(index, key, value) ==
  IF index = <<>> THEN <<<<key, value>>>>
  ELSE [index EXCEPT ![1] = <<key, value>>]

\* _apply_set_in_memory: the first entry with this key is replaced, and
\* without one the pair is appended
apply_set_in_memory(index, key, value) ==
  IF Matches(index, key) # {}
  THEN [index EXCEPT ![Min(Matches(index, key))] = <<key, value>>]
  ELSE Append(index, <<key, value>>)

\* a get that falls back to the empty string for a key it does not find
get_empty_on_miss(index, key) ==
  IF Matches(index, key) = {} THEN <<>>
  ELSE index[Min(Matches(index, key))][2]

\* KeyValueStore.get: the value of the first entry with this key, or None
get(index, key) ==
  IF Matches(index, key) # {}
  THEN index[Min(Matches(index, key))][2]
  ELSE None

\* the keys the index holds
IndexKeys(index) == {index[i][1] : i \in 1..Len(index)}

\* ---- replay of the log -----------------------------------------------------

\* io.DEFAULT_BUFFER_SIZE: a text file is read and decoded a chunk at a time
ChunkSize == 8192

\* position of the first undecodable byte of b, 0 when there is none
FirstBad(b) ==
  IF \E i \in 1..Len(b) : b[i] = BAD
  THEN Min({i \in 1..Len(b) : b[i] = BAD})
  ELSE 0

\* the lines a strict reader yields before it raises UnicodeDecodeError: the
\* complete lines of the chunks that precede the chunk with the bad byte
LinesBeforeError(b) ==
  LET good == Take(b, ((FirstBad(b) - 1) \div ChunkSize) * ChunkSize)
      ls   == Lines(Universal(good))
  IN  SelectSeq(ls, LAMBDA l : l[Len(l)] = NL)

\* "len(parts) == 3 and parts[0].upper() == 'SET'"
IsSetParts(parts) == Len(parts) = 3 /\ Upper(parts[1]) = SETWord

\* a replay that gives up at the first malformed line
RECURSIVE replay_stop_at_malformed(_, _)
replay_stop_at_malformed(ls, acc) ==
  IF ls = <<>> THEN acc
  ELSE
    LET line  == RStripNL(Head(ls))
        parts == Split(line, 2)
    IN  IF IsSetParts(parts)
        THEN replay_stop_at_malformed(Tail(ls),
               [acc EXCEPT !.total = @ + 1, !.applied = @ + 1,
                  !.index = apply_set_in_memory(@, parts[2], parts[3])])
        ELSE [acc EXCEPT !.total = @ + 1, !.skipped = @ + 1]

\* the loop of kvstore.load_data over the lines ls, from the state acc
RECURSIVE replay_kvstore(_, _)
replay_kvstore(ls, acc) ==
  IF ls = <<>> THEN acc
  ELSE
    LET line  == RStripNL(Head(ls))
        parts == Split(line, 2)
    IN  IF Strip(line) = <<>>
        THEN replay_kvstore(Tail(ls),
               [acc EXCEPT !.total = @ + 1, !.skipped = @ + 1])
        ELSE IF IsSetParts(parts)
        THEN replay_kvstore(Tail(ls),
               [acc EXCEPT !.total = @ + 1, !.applied = @ + 1,
                  !.index = apply_set_in_memory(@, parts[2], parts[3])])
        ELSE replay_kvstore(Tail(ls),
               [acc EXCEPT !.total = @ + 1, !.skipped = @ + 1])

\* what load_data starts from: an empty index and zeroed counters
LoadStart ==
  [index |-> <<>>, total |-> 0, applied |-> 0, skipped |-> 0, err |-> FALSE]

\* the lines "for raw in f" yields in kvstore.load_data, where the file is
\* opened with errors="strict"
lines_kvstore(b) ==
  IF FirstBad(b) # 0 THEN LinesBeforeError(b) ELSE Lines(Universal(b))

\* kvstore.load_data: the index and the counters it returns; err says that
\* it reported "ERR: failed to load" on stderr
load_data_kvstore(exists, b) ==
  IF ~exists THEN LoadStart
  ELSE [replay_kvstore(lines_kvstore(b), LoadStart)
          EXCEPT !.err = (FirstBad(b) # 0)]

\* a replay that gives up at the first line that is not blank and not a SET
RECURSIVE replay_main_stop(_, _)
replay_main_stop(ls, index) ==
  IF ls = <<>> THEN index
  ELSE
    LET line  == Strip(Head(ls))
        parts == Split(line, 2)
    IN  IF line = <<>> THEN replay_main_stop(Tail(ls), index)
        ELSE IF IsSetParts(parts)
        THEN replay_main_stop(Tail(ls),
               apply_set_in_memory(index, parts[2], parts[3]))
        ELSE index

\* the loop of main.load_data (it keeps no counters)
RECURSIVE replay_main(_, _)
replay_main(ls, index) ==
  IF ls = <<>> THEN index
  ELSE
    LET line  == Strip(Head(ls))
        parts == Split(line, 2)
    IN  IF line = <<>> THEN replay_main(Tail(ls), index)
        ELSE IF IsSetParts(parts)
        THEN replay_main(Tail(ls),
               apply_set_in_memory(index, parts[2], parts[3]))
        ELSE replay_main(Tail(ls), index)

\* the lines "for raw in f" yields in main.load_data, where the file is
\* opened with errors="replace"
lines_main(b) == Lines(Universal(DecodeReplace(b)))

\* main.load_data: undecodable bytes are replaced, never raised
load_data_main(exists, b) ==
  IF ~exists THEN <<>> ELSE replay_main(lines_main(b), <<>>)

\* the loop of load_data.load_data, with its own update-or-insert: the
\* "for ... else" replaces the first entry with the key, or appends
RECURSIVE replay_load_data_py(_, _)
replay_load_data_py(ls, index) ==
  IF ls = <<>> THEN index
  ELSE
    LET line  == Strip(Head(ls))
        parts == Split(line, 2)
        at    == {i \in 1..Len(index) : index[i][1] = parts[2]}
    IN  IF line = <<>> THEN replay_load_data_py(Tail(ls), index)
        ELSE IF IsSetParts(parts)
        THEN replay_load_data_py(Tail(ls),
               IF at = {} THEN Append(index, <<parts[2], parts[3]>>)
               ELSE [index EXCEPT ![Min(at)] = <<parts[2], parts[3]>>])
        ELSE replay_load_data_py(Tail(ls), index)

\* load_data.load_data: the index it builds (the file is opened with
\* errors="replace")
load_data_py(exists, b) ==
  IF ~exists THEN <<>>
  ELSE replay_load_data_py(Lines(Universal(DecodeReplace(b))), <<>>)

\* the lines load_data of the program prog reads from the file b
lines_read(prog, b) ==
  IF prog = "kvstore" THEN lines_kvstore(b) ELSE lines_main(b)

\* load_data of the program impl, as a record like kvstore.load_data's
load_data(impl, exists, b) ==
  IF impl = "kvstore" THEN load_data_kvstore(exists, b)
  ELSE [LoadStart EXCEPT !.index = load_data_main(exists, b)]

\* ---- the command line --------------------------------------------------------

\* _parse_command: the upper-cased verb and the list of up to two arguments;
\* the second argument is the rest of the line
parse_command(line) ==
  LET parts == Split(Strip(line), 2)
  IN  IF parts = <<>> THEN [cmd |-> <<>>, args |-> <<>>]
      ELSE [cmd |-> Upper(parts[1]), args |-> Tail(parts)]

\* the line run_repl hands to _parse_command: kvstore.py strips it, main.py
\* removes the newline only
repl_line(impl, raw) == IF impl = "kvstore" THEN Strip(raw) ELSE RStripNL(raw)

\* lines written to stdout, each a text of its own
OKLine == <<"O", "K">>
BYELine == <<"B", "Y", "E">>
NULLLine == <<"N", "U", "L", "L">>

\* the line run_repl prints for an exception with the message exc
ErrLine(impl, exc) ==
  CASE exc = "invalid utf-8 input" -> <<"ERR: invalid utf-8 input">>
    [] exc = "write failed" ->
         IF impl = "kvstore" THEN <<"ERR: write failed">>
         ELSE <<"ERR: write failed: <strerror>">>
    [] exc = "usage: SET" ->
         IF impl = "kvstore" THEN <<"ERR: expected: SET <key> <value>">>
         ELSE <<"ERR: usage: SET <key> <value>">>
    [] exc = "usage: GET" ->
         IF impl = "kvstore" THEN <<"ERR: expected: GET <key>">>
         ELSE <<"ERR: usage: GET <key>">>
    [] OTHER -> <<"ERR: unknown command (use SET/GET/EXIT)">>

\* ---- the store ------------------------------------------------------------------

\* the record set appends: f"SET {safe_key} {safe_value}\n"
Record(key, value) == SETWord \o <<SP>> \o key \o <<SP>> \o value \o <<NL>>

\* safe_key / safe_value: kvstore.py encodes strictly (and rejects what does
\* not encode), main.py replaces what does not encode
Safe(impl, s) == IF impl = "kvstore" THEN s ELSE EncodeReplace(s)

\* largest number of characters data.db grows to
MaxLog == 17

\* largest number of failures in a run: failed calls of open, write, flush
\* and fsync, and interruptions that lose characters of the file
MaxFaults == 1

\* the keys the callers of set and get pass
KeysIn == {<<>>, <<"a">>}

\* the (key, value) pairs the callers of set pass: the empty key and the
\* empty value of the tests, two values of a key, one a prefix of the other,
\* and a value that has no UTF-8 encoding
SetInputs ==
  { <<<<>>, <<"1">>>>,
    <<<<"a">>, <<>>>>,
    <<<<"a">>, <<"1">>>>,
    <<<<"a">>, <<"1", "2">>>>,
    <<<<"a">>, <<SUR>>>> }

\* lines that arrive on stdin
ReplInputs ==
  { <<"S", "E", "T", SP, "a", SP, "1", NL>>,
    <<SP, "s", "e", "t", SP, SP, "a", SP, "1", "2", SP, NL>>,
    <<"g", "e", "t", SP, "a", NL>>,
    <<"S", "E", "T", SP, "a", NL>>,
    <<"G", "E", "T", SP, "a", SP, "b", NL>>,
    <<"a", SP, "1", NL>>,
    <<SP, NL>>,
    <<"E", "X", "I", "T", NL>>,
    <<"e", "x", "i", "t", SP, "a", NL>> }

VARIABLES
  impl,     \* the program that runs: "kvstore" (kvstore.py) or "main" (main.py)
  pc,       \* "down", "ready", "flushed" (inside set, before fsync) or "exited"
  exists,   \* whether data.db exists
  disk,     \* the content of data.db
  durable,  \* how many leading characters of data.db an fsync has covered
  index,    \* KeyValueStore.index
  cur,      \* the set in progress
  resp,     \* the lines the last command wrote to stdout
  last,     \* history: the last call and how it ended
  hist,     \* history: per key, the sets that completed
  torn,     \* history: data.db ended inside a line when the process started
  faults,   \* history: how many failures there have been
  inp       \* history: the line of stdin the last command came from (<<>>
            \* when it did not come from stdin)

vars ==
  <<impl, pc, exists, disk, durable, index, cur, resp, last, hist, torn, faults,
    inp>>

NoCur == [key |-> <<>>, val |-> <<>>, via |-> "", ckey |-> <<>>, cval |-> <<>>]

\* per key: val, the value of the last set that completed (None before the
\* first); dirty, whether a later set on the key failed; run, how many sets
\* on the key completed since the process started (2 for two or more); prev,
\* the value of the completed set before the last of this process; and
\* afterTorn, whether the process of the last set started on a torn file
NoHist ==
  [val |-> None, prev |-> None, run |-> 0, dirty |-> FALSE, afterTorn |-> FALSE]

\* the last call: op is what was called, via is "api" or "repl", key and val
\* are the arguments, ret is what it returned and exc is the message of the
\* exception it raised ("" when it returned)
Call(op, via, key, val, ret, exc) ==
  [op |-> op, via |-> via, key |-> key, val |-> val, ret |-> ret, exc |-> exc]

\* whether the file ends inside a line
EndsInsideLine(b) == b # <<>> /\ b[Len(b)] # NL

Init ==
  /\ impl \in {"kvstore", "main"}
  /\ pc = "down"
  /\ exists = FALSE
  /\ disk = <<>>
  /\ durable = 0
  /\ index = <<>>
  /\ cur = NoCur
  /\ resp = <<>>
  /\ last = Call("init", "", <<>>, <<>>, None, "")
  /\ hist = [k \in KeysIn |-> NoHist]
  /\ torn = FALSE
  /\ faults = 0
  /\ inp = <<>>

\* KeyValueStore.__init__ at process start: the index is rebuilt from
\* data.db. The history keeps the set that the interruption cut short.
Start ==
  /\ pc = "down"
  /\ index' = load_data(impl, exists, disk).index
  /\ pc' = "ready"
  /\ resp' = <<>>
  /\ cur' = NoCur
  /\ last' = [last EXCEPT !.op = "start",
                          !.ret = IF load_data(impl, exists, disk).err
                                  THEN <<"ERR: failed to load data.db">>
                                  ELSE None]
  /\ hist' = [k \in KeysIn |-> [hist[k] EXCEPT !.prev = None, !.run = 0]]
  /\ torn' = EndsInsideLine(disk)
  /\ inp' = <<>>
  /\ UNCHANGED <<impl, exists, disk, durable, faults>>

\* a set that updates the index before it appends, and raises afterwards
Raise_after_update(via, key, value, exc) ==
  /\ pc' = "ready"
  /\ cur' = NoCur
  /\ resp' = IF via = "repl" THEN <<ErrLine(impl, exc)>> ELSE <<>>
  /\ last' = Call("set", via, key, value, None, exc)
  /\ hist' = IF key \in KeysIn THEN [hist EXCEPT ![key].dirty = TRUE] ELSE hist
  /\ index' = apply_set_in_memory(index, key, value)
  /\ UNCHANGED <<impl, durable, torn>>

\* set raises KVError(exc): the index is as it was, and run_repl prints the
\* message as an ERR line
Raise(via, key, value, exc) ==
  /\ pc' = "ready"
  /\ cur' = NoCur
  /\ resp' = IF via = "repl" THEN <<ErrLine(impl, exc)>> ELSE <<>>
  /\ last' = Call("set", via, key, value, None, exc)
  /\ hist' = IF key \in KeysIn THEN [hist EXCEPT ![key].dirty = TRUE] ELSE hist
  /\ UNCHANGED <<impl, index, durable, torn>>

\* a set that opens data.db with mode "w": what it writes replaces the file
SetStart_rewriting(via, key, value) ==
  LET rec == Record(Safe(impl, key), Safe(impl, value))
  IN
  /\ pc = "ready"
  /\ IF impl = "kvstore" /\ ~(Encodable(key) /\ Encodable(value))
     THEN /\ Raise(via, key, value, "invalid utf-8 input")
          /\ UNCHANGED <<exists, disk, faults>>
     ELSE /\ Len(disk) + Len(rec) <= MaxLog
          /\ \/ \* open() fails
                /\ faults < MaxFaults
                /\ faults' = faults + 1
                /\ Raise(via, key, value, "write failed")
                /\ UNCHANGED <<exists, disk>>
             \/ \* the write fails after n characters reached the file
                \E n \in 0..(Len(rec) - 1) :
                  /\ faults < MaxFaults
                  /\ faults' = faults + 1
                  /\ exists' = TRUE
                  /\ disk' = Take(rec, n)
                  /\ Raise(via, key, value, "write failed")
             \/ \* the record reached the file
                /\ exists' = TRUE
                /\ disk' = rec
                /\ pc' = "flushed"
                /\ cur' = [key |-> Safe(impl, key), val |-> Safe(impl, value),
                           via |-> via, ckey |-> key, cval |-> value]
                /\ resp' = <<>>
                /\ last' = Call("write", via, key, value, None, "")
                /\ UNCHANGED <<impl, index, durable, hist, torn, faults>>

\* KeyValueStore.set up to the end of f.flush(): the strict encoding check,
\* then open for append, write and flush, any of which the system may fail
SetStart(via, key, value) ==
  LET rec == Record(Safe(impl, key), Safe(impl, value))
  IN
  /\ pc = "ready"
  /\ IF impl = "kvstore" /\ ~(Encodable(key) /\ Encodable(value))
     THEN /\ Raise(via, key, value, "invalid utf-8 input")
          /\ UNCHANGED <<exists, disk, faults>>
     ELSE /\ Len(disk) + Len(rec) <= MaxLog
          /\ \/ \* open() fails
                /\ faults < MaxFaults
                /\ faults' = faults + 1
                /\ Raise(via, key, value, "write failed")
                /\ UNCHANGED <<exists, disk>>
             \/ \* the write fails after n characters reached the file
                \E n \in 0..(Len(rec) - 1) :
                  /\ faults < MaxFaults
                  /\ faults' = faults + 1
                  /\ exists' = TRUE
                  /\ disk' = disk \o Take(rec, n)
                  /\ Raise(via, key, value, "write failed")
             \/ \* the record reached the file
                /\ exists' = TRUE
                /\ disk' = disk \o rec
                /\ pc' = "flushed"
                /\ cur' = [key |-> Safe(impl, key), val |-> Safe(impl, value),
                           via |-> via, ckey |-> key, cval |-> value]
                /\ resp' = <<>>
                /\ last' = Call("write", via, key, value, None, "")
                /\ UNCHANGED <<impl, index, durable, hist, torn, faults>>

\* the rest of set when os.fsync succeeds: the whole file is durable, the
\* index is updated (and main.py prints OK)
SetFinish ==
  /\ pc = "flushed"
  /\ durable' = Len(disk)
  /\ index' = apply_set_in_memory(index, cur.key, cur.val)
  /\ pc' = "ready"
  /\ cur' = NoCur
  /\ resp' = IF impl = "main" THEN <<OKLine>> ELSE <<>>
  /\ last' = Call("set", cur.via, cur.ckey, cur.cval, None, "")
  /\ hist' = IF cur.ckey \in KeysIn
             THEN [hist EXCEPT ![cur.ckey] =
                     [val |-> cur.cval,
                      prev |-> IF @.run > 0 THEN @.val ELSE None,
                      run |-> IF @.run < 2 THEN @.run + 1 ELSE 2,
                      dirty |-> FALSE,
                      afterTorn |-> torn]]
             ELSE hist
  /\ UNCHANGED <<impl, exists, disk, torn, faults, inp>>

\* the rest of set when os.fsync fails: KVError("write failed")
SetFsyncFails ==
  /\ pc = "flushed"
  /\ faults < MaxFaults
  /\ faults' = faults + 1
  /\ Raise(cur.via, cur.ckey, cur.cval, "write failed")
  /\ UNCHANGED <<exists, disk, inp>>

\* a get that remembers a key it did not find, with an empty value
Get_inserting(via, key) ==
  /\ pc = "ready"
  /\ resp' = IF via # "repl" THEN <<>>
             ELSE IF get(index, key) = None THEN <<NULLLine>>
             ELSE <<get(index, key)>>
  /\ last' = Call("get", via, key, <<>>, get(index, key), "")
  /\ index' = IF get(index, key) = None THEN Append(index, <<key, <<>>>>)
              ELSE index
  /\ UNCHANGED <<impl, pc, exists, disk, durable, cur, hist, torn, faults>>

\* KeyValueStore.get, and the line run_repl prints for it
Get(via, key) ==
  /\ pc = "ready"
  /\ resp' = IF via # "repl" THEN <<>>
             ELSE IF get(index, key) = None THEN <<NULLLine>>
             ELSE <<get(index, key)>>
  /\ last' = Call("get", via, key, <<>>, get(index, key), "")
  /\ UNCHANGED <<impl, pc, exists, disk, durable, index, cur, hist, torn,
                 faults>>

\* a call of set by a caller that holds the store (the tests)
ApiSet ==
  /\ \E kv \in SetInputs : SetStart("api", kv[1], kv[2])
  /\ inp' = <<>>

\* a call of get by a caller that holds the store
ApiGet ==
  /\ \E k \in KeysIn : Get("api", k)
  /\ inp' = <<>>

\* a loop that does not catch the error of a rejected line: it ends there
Answer_uncaught(op, lines, exc, next) ==
  /\ pc' = IF op = "line" THEN "exited" ELSE next
  /\ resp' = lines
  /\ last' = Call(op, "repl", <<>>, <<>>, None, exc)
  /\ UNCHANGED <<impl, exists, disk, durable, index, cur, hist, torn, faults>>

\* a line of stdin that run_repl answers without calling the store
Answer(op, lines, exc, next) ==
  /\ pc' = next
  /\ resp' = lines
  /\ last' = Call(op, "repl", <<>>, <<>>, None, exc)
  /\ UNCHANGED <<impl, exists, disk, durable, index, cur, hist, torn, faults>>

\* one turn of the loop of run_repl on the line raw
ReplLine ==
  \E raw \in ReplInputs :
    LET line == repl_line(impl, raw)
        p    == parse_command(line)
    IN
    /\ pc = "ready"
    /\ inp' = raw
    /\ IF p.cmd = <<>> THEN Answer("blank", <<>>, "", "ready")
       ELSE IF p.cmd = EXITWord
       THEN Answer("exit", IF impl = "main" THEN <<BYELine>> ELSE <<>>, "",
                   "exited")
       ELSE IF p.cmd = SETWord
       THEN IF Len(p.args) # 2
            THEN Answer("line", <<ErrLine(impl, "usage: SET")>>, "usage: SET",
                        "ready")
            ELSE SetStart("repl", p.args[1], p.args[2])
       ELSE IF p.cmd = GETWord
       THEN IF Len(p.args) # 1
            THEN Answer("line", <<ErrLine(impl, "usage: GET")>>, "usage: GET",
                        "ready")
            ELSE Get("repl", p.args[1])
       ELSE Answer("line", <<ErrLine(impl, "unknown command")>>,
                   "unknown command", "ready")

\* stdin ends: the loop of run_repl is over and the process exits
Eof ==
  /\ pc = "ready"
  /\ Answer("eof", <<>>, "", "exited")
  /\ inp' = <<>>

\* the process ends or is interrupted, at any point; of the characters no
\* fsync has covered, any tail may be lost. The history keeps the set that
\* was in progress.
Crash ==
  /\ pc # "down"
  /\ \E n \in durable..Len(disk) :
       /\ n < Len(disk) => faults < MaxFaults
       /\ faults' = IF n < Len(disk) THEN faults + 1 ELSE faults
       /\ disk' = Take(disk, n)
  /\ last' = IF pc = "flushed"
             THEN Call("crash", cur.via, cur.ckey, cur.cval, None, "in progress")
             ELSE Call("crash", "", <<>>, <<>>, None, "")
  /\ pc' = "down"
  /\ index' = <<>>
  /\ cur' = NoCur
  /\ resp' = <<>>
  /\ inp' = <<>>
  /\ UNCHANGED <<impl, exists, durable, hist, torn>>

Next ==
  \/ Start
  \/ ApiSet
  \/ ApiGet
  \/ SetFinish
  \/ SetFsyncFails
  \/ ReplLine
  \/ Eof
  \/ Crash

Spec == Init /\ [][Next]_vars

\* ---- replay of a log that is already there ---------------------------------------

\* pieces of a data.db: records, a record with a lower-case verb and extra
\* whitespace, malformed lines (another verb, no value, blank, undecodable)
\* and a record without its terminator
Pieces ==
  { <<"S", "E", "T", SP, "a", SP, "1", NL>>,
    <<"S", "E", "T", SP, "b", SP, "1", "2", NL>>,
    <<"s", "e", "t", SP, "a", SP, SP, "2", SP, NL>>,
    <<"X", SP, "a", SP, "1", NL>>,
    <<"S", "E", "T", SP, "a", NL>>,
    <<SP, NL>>,
    <<BAD, NL>>,
    <<"S", "E", "T", SP, "b", SP, "1">> }

\* largest number of pieces of a data.db that is already there
MaxPieces == 3

\* the pieces ps one after the other
RECURSIVE Concat(_)
Concat(ps) == IF ps = <<>> THEN <<>> ELSE Head(ps) \o Concat(Tail(ps))

\* a program is about to start on a data.db made of pieces
InitReplay ==
  /\ impl \in {"kvstore", "main"}
  /\ pc = "down"
  /\ exists = TRUE
  /\ \E n \in 0..MaxPieces : \E ps \in [1..n -> Pieces] : disk = Concat(ps)
  /\ durable = Len(disk)
  /\ index = <<>>
  /\ cur = NoCur
  /\ resp = <<>>
  /\ last = Call("init", "", <<>>, <<>>, None, "")
  /\ hist = [k \in KeysIn |-> NoHist]
  /\ torn = FALSE
  /\ faults = 0
  /\ inp = <<>>

NextReplay ==
  \/ Start
  \/ ApiGet

SpecReplay == InitReplay /\ [][NextReplay]_vars

\* ---- what a log means, read off the format ---------------------------------

\* the largest element of a non-empty set of numbers
Max(S) == CHOOSE m \in S : \A n \in S : m >= n

\* the first position of line, from position from on, that holds whitespace
\* (ws = TRUE) or something else (ws = FALSE); 0 when there is none
FirstAt(line, from, ws) ==
  LET hits == {i \in from..Len(line) : IsSpace(line[i]) = ws}
  IN  IF hits = {} THEN 0 ELSE Min(hits)

\* where the verb, the key and the value of a line begin and where the key
\* ends, each 0 when the line has no such part
VerbAt(line) == FirstAt(line, 1, FALSE)
VerbEnd(line) == IF VerbAt(line) = 0 THEN 0 ELSE FirstAt(line, VerbAt(line), TRUE)
KeyAt(line) == IF VerbEnd(line) = 0 THEN 0 ELSE FirstAt(line, VerbEnd(line), FALSE)
KeyEnd(line) == IF KeyAt(line) = 0 THEN 0 ELSE FirstAt(line, KeyAt(line), TRUE)
ValAt(line) == IF KeyEnd(line) = 0 THEN 0 ELSE FirstAt(line, KeyEnd(line), FALSE)

\* a line "SET <key> <value>": the verb in any case, a key without
\* whitespace, and a value that is the rest of the line; an undecodable
\* byte makes the line malformed
WellFormed(line) ==
  /\ ValAt(line) # 0
  /\ Upper(SubSeq(line, VerbAt(line), VerbEnd(line) - 1)) = SETWord
  /\ \A i \in 1..Len(line) : line[i] # BAD

RecKey(line) == SubSeq(line, KeyAt(line), KeyEnd(line) - 1)

\* the value of a line: the rest of the line, which main.py reads without
\* its trailing whitespace
RecVal(prog, line) ==
  LET rest == SubSeq(line, ValAt(line), Len(line))
  IN  IF prog = "kvstore" THEN rest
      ELSE Take(rest, Max({i \in 1..Len(rest) : ~IsSpace(rest[i])}))

\* a line without its terminator
Body(raw) ==
  IF raw # <<>> /\ raw[Len(raw)] = NL THEN Take(raw, Len(raw) - 1) ELSE raw

\* the value the lines ls give the key: that of the last well-formed line
\* with this key, None without one
RefGetLines(prog, ls, key) ==
  LET hits == {i \in 1..Len(ls) :
                 WellFormed(Body(ls[i])) /\ RecKey(Body(ls[i])) = key}
  IN  IF hits = {} THEN None ELSE RecVal(prog, Body(ls[Max(hits)]))

\* the value the log b gives the key
RefGet(prog, b, key) == RefGetLines(prog, Lines(Universal(b)), key)

\* the keys of the well-formed lines of the log b
RefKeys(b) ==
  LET ls == Lines(Universal(b))
  IN  {RecKey(Body(ls[i])) : i \in {j \in 1..Len(ls) : WellFormed(Body(ls[j]))}}

\* a key and a value the line format can carry: the key a token without
\* whitespace, the value not empty, without whitespace at its ends and
\* without a line end inside
Representable(key, value) ==
  /\ key # <<>>
  /\ \A i \in 1..Len(key) : ~IsSpace(key[i]) /\ key[i] # SUR
  /\ value # <<>>
  /\ ~IsSpace(value[1]) /\ ~IsSpace(value[Len(value)])
  /\ \A i \in 1..Len(value) : value[i] \notin {NL, CR, SUR}

\* whether s ends with t
EndsWith(s, t) ==
  Len(t) <= Len(s) /\ SubSeq(s, Len(s) - Len(t) + 1, Len(s)) = t

\* the interruption before this start cut a set short on the key k
InProgress(k) == last.exc = "in progress" /\ last.key = k

\* ---- the claims -----------------------------------------------------------------

\* C1: round trip. When set(k, v) of kvstore.py has returned, get(k) in the
\* same process returns v, the empty key and the empty value included.
C1_RoundTrip ==
  (impl = "kvstore" /\ last.op = "set" /\ last.exc = "")
    => get(index, last.key) = last.val

\* C1 witness: the empty key has just been set in a process that had set
\* the empty value on another key
C1_Witness ==
  /\ impl = "kvstore" /\ last.op = "set" /\ last.exc = ""
  /\ last.key = <<>> /\ last.val = <<"1">>
  /\ hist[<<"a">>].run = 1 /\ hist[<<"a">>].val = <<>>
  /\ get(index, <<"a">>) = <<>>

\* C2: persistence. After a restart, get(k) returns the value of the last
\* set on k that returned, when no later set on k was made.
C2_Persistence ==
  (impl = "kvstore" /\ last.op = "start")
    => \A k \in KeysIn :
         (hist[k].val # None /\ ~hist[k].dirty /\ ~InProgress(k))
           => get(index, k) = hist[k].val

\* C3: last write wins. In a live process, a key that was set twice or more
\* has the value of the last of these sets, whatever else was called.
C3_LastWriteWins ==
  (impl = "kvstore" /\ pc \in {"ready", "flushed"})
    => \A k \in KeysIn : hist[k].run = 2 => get(index, k) = hist[k].val

\* C3 witness: a was set twice, to two values, a set on another key failed
\* and a get on another key followed
C3_Witness ==
  /\ impl = "kvstore" /\ pc = "ready"
  /\ hist[<<"a">>].run = 2 /\ hist[<<"a">>].prev # hist[<<"a">>].val
  /\ hist[<<>>].dirty
  /\ last.op = "get" /\ last.key = <<>>

\* what a step that acknowledges a set looks like: the record is the end of
\* the file, and this step's fsync covers the whole file
AckStep ==
  /\ pc = "flushed"
  /\ EndsWith(disk, Record(cur.key, cur.val))
  /\ disk' = disk
  /\ durable' = Len(disk')
  /\ index' = apply_set_in_memory(index, cur.key, cur.val)
  /\ last'.op = "set" /\ last'.exc = ""
  /\ resp' = IF impl = "main" THEN <<OKLine>> ELSE <<>>

\* C4: durability before acknowledgement. The index changes, set returns
\* and OK is printed only in a step whose fsync succeeded on the written
\* record; a set whose append or fsync fails raises KVError, the loop prints
\* the write-failure line, and the index is what it was.
C4_DurabilityBeforeAck ==
  [][ /\ (pc # "down" /\ pc' # "down" /\ index' # index) => AckStep
      /\ (last'.op = "set" /\ last'.exc = "") => AckStep
      /\ (resp' = <<OKLine>>) => AckStep
      /\ (last'.op = "set" /\ last'.exc = "write failed")
           => /\ index' = index
              /\ pc' = "ready"
              /\ last'.via = "repl" => resp' = <<ErrLine(impl, "write failed")>>
    ]_vars

\* C4 witness: a SET line whose record reached the file and whose fsync
\* failed: the ERR line is printed and the key is not in the index
C4_Witness ==
  /\ last.op = "set" /\ last.exc = "write failed" /\ last.via = "repl"
  /\ resp = <<ErrLine(impl, "write failed")>>
  /\ EndsWith(disk, Record(last.key, last.val))
  /\ durable < Len(disk)
  /\ get(index, last.key) = None

\* the interruption before this start cut the record of the set in progress
\* short: some of it is in the file and some is missing
CutShort ==
  /\ last.exc = "in progress"
  /\ (durable = 0 \/ disk[durable] = NL)
  /\ durable < Len(disk)
  /\ Len(disk) - durable < Len(Record(last.key, last.val))

\* C5: truncated tail. After a restart on a log whose last record was cut
\* short, every key has the value of its last well-formed record before the
\* cut record, and no value otherwise.
C5_TruncatedTail ==
  (impl = "kvstore" /\ last.op = "start" /\ CutShort)
    => \A k \in KeysIn \cup IndexKeys(index) :
         get(index, k) = RefGet(impl, Take(disk, durable), k)

\* the value of the last set on k that returned
Completed(k) == IF k \in KeysIn THEN hist[k].val ELSE None

\* whether a set on k has failed since the last set on k that returned
Failed(k) == k \in KeysIn /\ hist[k].dirty

\* C6: crash durability. After a restart, every key has the value of the
\* last set on it that returned, or that of a set on it that the
\* interruption cut short. (Keys with a failed set are left out: the claim
\* speaks of completed and interrupted sets only.)
C6_CrashDurability ==
  (impl = "kvstore" /\ last.op = "start")
    => \A k \in KeysIn \cup IndexKeys(index) :
         \/ Failed(k)
         \/ get(index, k) = Completed(k)
         \/ InProgress(k) /\ get(index, k) = last.val

\* C10: clean boundary after a torn tail. A set that returned in a process
\* that started on a log ending inside a line is recovered by the next
\* restart.
C10_CleanBoundary ==
  (impl = "kvstore" /\ last.op = "start")
    => \A j \in KeysIn :
         ( /\ hist[j].afterTorn /\ hist[j].val # None
           /\ ~hist[j].dirty /\ ~InProgress(j)
           /\ Representable(j, hist[j].val) )
           => get(index, j) = hist[j].val

\* C7: recovery invariant. After load_data of kvstore.py, whatever the log
\* holds, every key has the value of the last well-formed record with this
\* key, and a key without one is absent.
C7_RecoveryInvariant ==
  (impl = "kvstore" /\ last.op = "start")
    => \A k \in RefKeys(disk) \cup IndexKeys(index) :
         get(index, k) = RefGet("kvstore", disk, k)

\* whether line i of ls is malformed (blank lines left aside), or partial
\* (it has no terminator)
Broken(ls, i) ==
  \/ Strip(ls[i]) # <<>> /\ ~WellFormed(Body(ls[i]))
  \/ ls[i][Len(ls[i])] # NL

\* the offset in the log at which line i of ls begins
RECURSIVE OffsetOf(_, _)
OffsetOf(ls, i) == IF i = 1 THEN 0 ELSE Len(ls[i - 1]) + OffsetOf(ls, i - 1)

\* the offset at which the first malformed or partial line of the log b
\* begins (the length of b when there is none)
FirstBroken(b) ==
  LET ls   == Lines(Universal(b))
      hits == {i \in 1..Len(ls) : Broken(ls, i)}
  IN  IF hits = {} THEN Len(b) ELSE OffsetOf(ls, Min(hits))

\* a step in which a program starts on an existing log
StartStep == pc = "down" /\ pc' = "ready" /\ exists

SomeMalformed(ls) == \E i \in 1..Len(ls) : ~WellFormed(Body(ls[i]))

IsPrefix(s, t) == Len(s) <= Len(t) /\ Take(t, Len(s)) = s

\* C11: append-only log. In every step of a running program (a set, a get,
\* a rejected line, a failed append, a start) the log before the step is a
\* prefix of the log after it and the file is not removed; an interruption
\* loses no character that an fsync has covered.
C11_AppendOnly ==
  [][ /\ pc' # "down" => IsPrefix(disk, disk')
      /\ IsPrefix(Take(disk, durable), disk')
      /\ exists => exists'
    ]_vars

\* C11 witness: a set has returned after an append that was cut short, and
\* its record follows what the log held before
C11_Witness ==
  /\ last.op = "set" /\ last.exc = ""
  /\ faults = 1
  /\ EndsWith(disk, Record(Safe(impl, last.key), Safe(impl, last.val)))
  /\ Len(disk) > Len(Record(Safe(impl, last.key), Safe(impl, last.val)))
  /\ EndsInsideLine(Take(disk, Len(disk)
        - Len(Record(Safe(impl, last.key), Safe(impl, last.val)))))

\* all the whitespace-separated words of a line
Words(line) == Split(line, Len(line))

\* a well-formed SET line: the verb, a key and a non-empty remainder
IsSetLine(line) == Len(Words(line)) >= 3 /\ Upper(Words(line)[1]) = SETWord

\* a well-formed GET line: the verb and exactly one key
IsGetLine(line) == Len(Words(line)) = 2 /\ Upper(Words(line)[1]) = GETWord

\* an EXIT line: the verb, whatever follows it
IsExitLine(line) == Len(Words(line)) >= 1 /\ Upper(Words(line)[1]) = EXITWord

\* a line that is none of the three commands
IsOtherLine(line) == ~IsSetLine(line) /\ ~IsGetLine(line) /\ ~IsExitLine(line)

\* the lines of stdin that are none of the three commands, the blank ones
\* among them, and the EXIT lines
OtherLines == {l \in ReplInputs : IsOtherLine(l)}
BlankLines == {l \in ReplInputs : Words(l) = <<>>}
ExitLines == {l \in ReplInputs : IsExitLine(l)}

\* the error lines of the program that runs
ErrLines ==
  { ErrLine(impl, e) : e \in {"invalid utf-8 input", "write failed",
                              "usage: SET", "usage: GET", "unknown command"} }

\* a step in which the loop reads a line of stdin (the line is inp')
ReplStep == pc = "ready" /\ inp' # <<>>

\* a step that prints one error line, changes neither index nor log, and
\* leaves the loop running
Rejected ==
  /\ Len(resp') = 1 /\ resp'[1] \in ErrLines
  /\ index' = index /\ disk' = disk /\ exists' = exists
  /\ pc' = "ready"

\* C12 as claimed: every line that is not a well-formed SET, a well-formed
\* GET or EXIT gets an error line, changes neither index nor log, and the
\* loop goes on.
C12_AnyOtherLine ==
  [][ (ReplStep /\ inp' \in OtherLines) => Rejected ]_vars

\* C12 as amended: the same for every such line that is not blank, and a
\* blank line gets no answer at all, changes nothing, and the loop goes on.
C12_OtherLine ==
  [][ /\ (ReplStep /\ inp' \in OtherLines \ BlankLines) => Rejected
      /\ (ReplStep /\ inp' \in BlankLines)
           => /\ resp' = <<>>
              /\ index' = index /\ disk' = disk /\ exists' = exists
              /\ pc' = "ready"
    ]_vars

\* C12 witness: a SET line without a value was answered with the usage
\* error while the index held a key
C12_Witness ==
  /\ inp = <<"S", "E", "T", SP, "a", NL>>
  /\ resp = <<ErrLine(impl, "usage: SET")>>
  /\ get(index, <<"a">>) = <<"1">>
  /\ pc = "ready"

\* C13: encoding errors. A set of kvstore.py whose key or value the line
\* format cannot carry is rejected with an error before anything is
\* appended: the log and the index are as they were. (Steps in which open
\* or write fail are left aside.)
C13_RejectsUnrepresentable ==
  [][ ( /\ impl = "kvstore" /\ pc = "ready" /\ faults' = faults
        /\ last'.op \in {"set", "write"}
        /\ ~Representable(last'.key, last'.val) )
        => /\ last'.op = "set" /\ last'.exc # ""
           /\ disk' = disk /\ index' = index
    ]_vars

\* whether no set on k has ever returned and the log holds no well-formed
\* record with the key k
NeverSet(k) ==
  /\ k \in KeysIn => hist[k].val = None
  /\ k \notin RefKeys(disk)

\* C14: absence. In a running program a key that was never set and has no
\* well-formed record in the log is not in the index (a key that is in the
\* index was set or has such a record), and a GET line for a
\* key that is not found prints NULL; a start without data.db gives an
\* empty index, reports no error and does not create the file.
C14_Absence ==
  /\ [] /\ pc \in {"ready", "flushed"}
            => \A k \in KeysIn \cup IndexKeys(index) :
                 get(index, k) # None => ~NeverSet(k)
        /\ (last.op = "get" /\ last.via = "repl" /\ last.ret = None)
            => resp = <<NULLLine>>
  /\ [][ (pc = "down" /\ pc' = "ready" /\ ~exists)
            => (index' = <<>> /\ last'.ret = None /\ ~exists')
       ]_vars

\* C14 witness: started without data.db, the loop has answered a GET line
\* with NULL, and there is still no file
C14_Witness ==
  /\ ~exists /\ index = <<>>
  /\ last.op = "get" /\ last.via = "repl" /\ last.key = <<"a">>
  /\ last.ret = None
  /\ resp = <<NULLLine>>

\* C15: responses follow a reference map. In kvstore.py a SET line that
\* succeeds prints nothing and a GET line prints exactly one line: the value
\* of the last set on the key that returned in this process, or NULL for a
\* key that was never set and has no record in the log.
C15_ReferenceMap ==
  /\ (impl = "kvstore" /\ last.op = "set" /\ last.exc = "") => resp = <<>>
  /\ (impl = "kvstore" /\ last.op = "get" /\ last.via = "repl")
       => /\ Len(resp) = 1
          /\ hist[last.key].run > 0 => resp[1] = hist[last.key].val
          /\ (hist[last.key].run = 0 /\ NeverSet(last.key))
               => resp[1] = NULLLine

\* C15 witness: after the lines SET a 1 and SET a 12, the line GET a has
\* printed 12
C15_Witness ==
  /\ impl = "kvstore"
  /\ last.op = "get" /\ last.via = "repl" /\ last.key = <<"a">>
  /\ hist[<<"a">>].run = 2
  /\ hist[<<"a">>].prev = <<"1">>
  /\ resp = << <<"1", "2">> >>

\* the index load_data would rebuild from data.db as it is now
Rebuilt == load_data(impl, exists, disk).index

\* C16: the index is derived from the log. Between two commands of
\* kvstore.py, after sets that returned, sets that failed and gets, every
\* key has in the index the value that load_data would rebuild from the
\* log file as it is.
C16_IndexFromLog ==
  (impl = "kvstore" /\ pc = "ready")
    => \A k \in KeysIn \cup IndexKeys(index) \cup IndexKeys(Rebuilt) :
         get(index, k) = get(Rebuilt, k)

\* C17: a set changes its key only. The step of a set that appends adds
\* exactly its one record to the log and leaves the index alone, and the
\* step in which the set returns leaves the log alone and, for every key
\* other than its own, get returns what it returned before.
C17_SetFrame ==
  [][ /\ (pc = "ready" /\ pc' = "flushed")
           => /\ disk' = disk \o Record(cur'.key, cur'.val)
              /\ index' = index
      /\ (pc = "flushed" /\ last'.op = "set" /\ last'.exc = "")
           => /\ disk' = disk
              /\ get(index', cur.key) = cur.val
              /\ \A j \in (KeysIn \cup IndexKeys(index) \cup IndexKeys(index'))
                            \ {cur.key} :
                   get(index', j) = get(index, j)
    ]_vars

\* C17 witness: a set on the key a has returned while the index held
\* another key, which still has its value
C17_Witness ==
  /\ last.op = "set" /\ last.exc = "" /\ last.key = <<"a">>
  /\ get(index, <<"a">>) = last.val
  /\ get(index, <<>>) = <<"1">>
  /\ Len(index) = 2

\* C18: get is read-only. A step in which a get returns, whether it found
\* the key or not, leaves the index and the log file as they were, and a
\* get that follows a get on the same key returns the same result.
C18_GetReadOnly ==
  [][ /\ last'.op = "get"
           => /\ index' = index
              /\ disk' = disk /\ exists' = exists /\ durable' = durable
              /\ last'.ret = get(index, last'.key)
      /\ (last.op = "get" /\ last'.op = "get" /\ last'.key = last.key)
           => last'.ret = last.ret
    ]_vars

\* C18 witness: a GET line has found the key a in an index rebuilt from
\* the log, and the log is as it was
C18_Witness ==
  /\ last.op = "get" /\ last.via = "repl" /\ last.ret = <<"1">>
  /\ resp = << <<"1">> >>
  /\ hist[<<"a">>].run = 0
  /\ disk = Record(<<"a">>, <<"1">>)
  /\ durable = Len(disk)

\* C19: EXIT stops the loop. The step that reads an EXIT line prints a
\* termination acknowledgement and ends the loop without touching index or
\* log; once the loop has ended nothing more is read, changed or printed
\* (the process can only end); and at the end of stdin the loop ends too,
\* printing nothing.
C19_ExitStops ==
  [][ /\ (ReplStep /\ inp' \in ExitLines)
           => /\ pc' = "exited"
              /\ resp' # <<>>
              /\ index' = index /\ disk' = disk
      /\ pc = "exited" => (pc' = "down" /\ resp' = <<>>)
      /\ last'.op = "eof"
           => /\ pc' = "exited"
              /\ resp' = <<>>
              /\ index' = index /\ disk' = disk
    ]_vars

\* C20: key uniqueness. In every state, after a start on whatever the log
\* holds and after whatever sets, the index holds exactly one pair for each
\* of its keys.
C20_KeyUnique ==
  \A k \in IndexKeys(index) : Cardinality(Matches(index, k)) = 1

\* C20 witness: a start has rebuilt the index from a log with two records
\* for the key a, and the index holds one pair
C20_Witness ==
  /\ last.op = "start"
  /\ disk = Record(<<"a">>, <<"1">>) \o Record(<<"a">>, <<"1", "2">>)
  /\ index = << <<<<"a">>, <<"1", "2">>>> >>

\* what kvstore.load_data returns for data.db as it is now
Returned == load_data_kvstore(exists, disk)

\* how many of the lines ls have the form SET <key> <value>
SetLines(ls) == Cardinality({i \in 1..Len(ls) : WellFormed(Body(ls[i]))})

\* whether every line of ls is the record a set of a key and a value that
\* the line format can carry appends
OnlyRecords(ls) ==
  \A i \in 1..Len(ls) :
    /\ WellFormed(Body(ls[i]))
    /\ ls[i] = Record(RecKey(Body(ls[i])), RecVal("kvstore", Body(ls[i])))
    /\ Representable(RecKey(Body(ls[i])), RecVal("kvstore", Body(ls[i])))

\* C21: replay accounting. Whatever the log holds, the counters that
\* kvstore.load_data returns satisfy total = applied + skipped, applied is
\* the number of lines of the log of the form SET <key> <value>, and a log
\* that holds only records of sets has skipped = 0.
C21_ReplayAccounting ==
  (impl = "kvstore" /\ last.op = "start")
    => /\ Returned.total = Returned.applied + Returned.skipped
       /\ Returned.applied = SetLines(Lines(Universal(disk)))
       /\ OnlyRecords(Lines(Universal(disk))) => Returned.skipped = 0

\* C22: the three replays agree. Whatever the log holds, load_data of
\* kvstore.py, of main.py and of load_data.py build the same index: the
\* same pairs in the same order.
C22_ReplaysAgree ==
  (last.op = "start")
    => /\ load_data_kvstore(exists, disk).index = load_data_main(exists, disk)
       /\ load_data_main(exists, disk) = load_data_py(exists, disk)

====
